---- MODULE Spec2Model ----
(***************************************************************************)
(* Model of the query-execution core of the Loan Analytics Dashboard:      *)
(* the query registry (src/src/query_manager.py), the connection provider  *)
(* (src/src/database_connection.py), the module-level convenience          *)
(* functions (src/src/__init__.py), the schema validator                   *)
(* (src/src/utils/schema_validator.py) and the cache-clearing controls of  *)
(* the sidebar (src/app.py).  Spec is a session of the facade's users,     *)
(* SpecApp one of the app's own calls, SpecDB one of the provider's direct *)
(* users, SpecSV one run of the debug tool, SpecCatalog the lookups in the *)
(* registry, and SpecRace two sessions whose calls interleave.             *)
(*                                                                         *)
(* Streamlit's decorators are modelled by what they do: st.cache_data and  *)
(* st.cache_resource memoise a function per (function, hashed arguments),  *)
(* arguments whose name starts with an underscore are not hashed, an       *)
(* entry is served while now < stored_at + ttl, a call that raises stores  *)
(* nothing, and the st.* elements a cached function emitted are replayed   *)
(* on a hit.                                                               *)
(***************************************************************************)
EXTENDS Integers, Sequences, FiniteSets, TLC

\* ------------------------------------------------------------------ bounds
MaxTime == 600
Tick == 200
MaxRows == 1
MaxCalls == 3

\* ------------------------------------------------------- program constants
QUERY_CACHE_TTL == 300
MODULE_CACHE_TTL == 300
CONNECTION_CACHE_TTL == 600

\* --------------------------------------------------------- Python's values
\* Optional values: None is the empty tuple, a present value v is <<v>>.
None == <<>>
Some(v) == <<v>>

\* ------------------------------------------------------------ SQL templates
\* A SQL text is the sequence of its clauses: SELECT, the select list (named
\* by its first item), FROM, the table, then the remaining clauses.
HISTORICAL_LOANS == "efeld_cuj.loan_io.historical_loans"
RAW_TRANSACTIONS == "efeld_cuj.loan_io.raw_transactions"
REF_ACCOUNTING == "efeld_cuj.loan_io.ref_accounting"

get_loan_summary ==
    <<"SELECT", "total_loans", "FROM", HISTORICAL_LOANS, "WHERE">>
\* mutant: the template reads the transactions table
get_loan_status_distribution_of_transactions ==
    <<"SELECT", "loan_status", "FROM", RAW_TRANSACTIONS, "WHERE",
      "GROUP BY loan_status", "ORDER BY count DESC">>

get_loan_status_distribution ==
    <<"SELECT", "loan_status", "FROM", HISTORICAL_LOANS, "WHERE",
      "GROUP BY loan_status", "ORDER BY count DESC">>
get_grade_analysis ==
    <<"SELECT", "grade", "FROM", HISTORICAL_LOANS, "WHERE",
      "GROUP BY grade", "ORDER BY grade">>
get_purpose_analysis ==
    <<"SELECT", "purpose", "FROM", HISTORICAL_LOANS, "WHERE",
      "GROUP BY purpose", "ORDER BY loan_count DESC">>
get_state_distribution ==
    <<"SELECT", "addr_state", "FROM", HISTORICAL_LOANS, "WHERE",
      "GROUP BY addr_state", "ORDER BY loan_count DESC">>
get_monthly_loan_trend ==
    <<"SELECT", "issue_d as month", "FROM", HISTORICAL_LOANS, "WHERE",
      "GROUP BY issue_d", "ORDER BY issue_d", "LIMIT 50">>
get_risk_analysis ==
    <<"SELECT", "grade, loan_status", "FROM", HISTORICAL_LOANS, "WHERE",
      "GROUP BY grade, loan_status", "ORDER BY grade, loan_count DESC">>
get_employment_analysis ==
    <<"SELECT", "emp_length_group", "FROM", HISTORICAL_LOANS, "WHERE",
      "GROUP BY emp_length_group", "ORDER BY CASE emp_length_group">>

get_transaction_summary ==
    <<"SELECT", "total_transactions", "FROM", RAW_TRANSACTIONS, "WHERE">>
get_transaction_by_status ==
    <<"SELECT", "transaction_status", "FROM", RAW_TRANSACTIONS, "WHERE",
      "GROUP BY status", "ORDER BY transaction_count DESC">>
get_transaction_by_purpose ==
    <<"SELECT", "transaction_purpose", "FROM", RAW_TRANSACTIONS, "WHERE",
      "GROUP BY purpose", "ORDER BY transaction_count DESC">>
get_payment_analysis ==
    <<"SELECT", "transaction_type, avg_arrears", "FROM", RAW_TRANSACTIONS,
      "WHERE", "GROUP BY type", "ORDER BY total_balance DESC">>

get_accounting_treatment_analysis ==
    <<"SELECT", "treatment_type", "FROM", RAW_TRANSACTIONS, "LEFT JOIN",
      REF_ACCOUNTING, "WHERE", "GROUP BY ra.accounting_treatment",
      "ORDER BY total_balance DESC">>
get_balance_analysis ==
    <<"SELECT", "transaction_type, transaction_status", "FROM",
      RAW_TRANSACTIONS, "WHERE", "GROUP BY type, status",
      "ORDER BY total_balance DESC">>
get_accounting_by_state ==
    <<"SELECT", "state_code", "FROM", RAW_TRANSACTIONS, "WHERE",
      "GROUP BY state_code", "ORDER BY total_balance DESC">>
get_interest_analysis ==
    <<"SELECT", "transaction_type, interest_to_balance_ratio", "FROM",
      RAW_TRANSACTIONS, "WHERE", "GROUP BY type",
      "ORDER BY total_accrued_interest DESC">>

\* QueryManager.query_registry: name -> the SQL its query function returns.
query_registry ==
    [ loan_summary |-> get_loan_summary,
      loan_status_distribution |-> get_loan_status_distribution,
      grade_analysis |-> get_grade_analysis,
      purpose_analysis |-> get_purpose_analysis,
      state_distribution |-> get_state_distribution,
      monthly_loan_trend |-> get_monthly_loan_trend,
      risk_analysis |-> get_risk_analysis,
      employment_analysis |-> get_employment_analysis,
      transaction_summary |-> get_transaction_summary,
      transaction_by_status |-> get_transaction_by_status,
      transaction_by_purpose |-> get_transaction_by_purpose,
      payment_analysis |-> get_payment_analysis,
      accounting_treatment_analysis |-> get_accounting_treatment_analysis,
      balance_analysis |-> get_balance_analysis,
      accounting_by_state |-> get_accounting_by_state,
      interest_analysis |-> get_interest_analysis,
      overview |-> get_loan_summary,
      loan_status |-> get_loan_status_distribution,
      monthly_trends |-> get_monthly_loan_trend,
      transactions |-> get_transaction_summary,
      accounting |-> get_accounting_treatment_analysis ]

\* The registry's names, cut so that the domain words ("loan", "transaction",
\* "accounting") a name contains are parts of their own.
name_parts ==
    [ loan_summary |-> <<"loan", "_summary">>,
      loan_status_distribution |-> <<"loan", "_status_distribution">>,
      grade_analysis |-> <<"grade_analysis">>,
      purpose_analysis |-> <<"purpose_analysis">>,
      state_distribution |-> <<"state_distribution">>,
      monthly_loan_trend |-> <<"monthly_", "loan", "_trend">>,
      risk_analysis |-> <<"risk_analysis">>,
      employment_analysis |-> <<"employment_analysis">>,
      transaction_summary |-> <<"transaction", "_summary">>,
      transaction_by_status |-> <<"transaction", "_by_status">>,
      transaction_by_purpose |-> <<"transaction", "_by_purpose">>,
      payment_analysis |-> <<"payment_analysis">>,
      accounting_treatment_analysis |->
          <<"accounting", "_treatment_analysis">>,
      balance_analysis |-> <<"balance_analysis">>,
      accounting_by_state |-> <<"accounting", "_by_state">>,
      interest_analysis |-> <<"interest_analysis">>,
      overview |-> <<"overview">>,
      loan_status |-> <<"loan", "_status">>,
      monthly_trends |-> <<"monthly_trends">>,
      transactions |-> <<"transaction", "s">>,
      accounting |-> <<"accounting">> ]

\* ------------------------------------------------------------- st messages
ERR_UNKNOWN == "error: Unknown query type"
INFO_AVAILABLE == "info: Available query types"
EXP_DETAILS == "expander: Query Details"
EXP_RESULTS == "expander: Results Info"
WARN_NO_RESULTS == "warning: Query returned no results"
ERR_FAILED == "error: Failed to execute query"
WARN_CUSTOM_NO_RESULTS == "warning: Custom query returned no results"
ERR_CUSTOM_FAILED == "error: Custom query failed"
ERR_CONNECTION == "error: Database connection failed"
ERR_EXECUTION == "error: Query execution failed"
ERR_NO_WAREHOUSE ==
    "ValueError: DATABRICKS_WAREHOUSE_ID environment variable not set"
SUCCESS_CLEARED == "success: Cache cleared!"
WARN_TABLE_INFO == "warning: Could not get table info"
WARN_COLUMNS == "warning: Could not get columns"
WARN_SAMPLE == "warning: Could not get sample data"
WRITE_VALIDATING == "write: Validating"
SUCCESS_COLUMNS_FOUND == "success: columns found"
WRITE_FIRST_COLUMNS == "write: First 10 columns"
WRITE_LOAN_FIELDS == "write: Loan fields"
WRITE_ACCOUNTING_FIELDS == "write: Accounting fields"
ERR_NO_COLUMNS == "error: Could not retrieve columns"
ERR_TEST_FAILED == "error: Connection test failed"

Errors == {ERR_UNKNOWN, ERR_FAILED, ERR_CUSTOM_FAILED, ERR_CONNECTION,
           ERR_EXECUTION, ERR_NO_COLUMNS, ERR_TEST_FAILED}
Warnings == {WARN_NO_RESULTS, WARN_CUSTOM_NO_RESULTS, WARN_TABLE_INFO,
             WARN_COLUMNS, WARN_SAMPLE}
Successes == {SUCCESS_CLEARED, SUCCESS_COLUMNS_FOUND}

\* ------------------------------------------------- the external SQL service
\* What the warehouse does during one call: sql.connect succeeds or fails;
\* the statement faults at cursor(), at cursor.execute() or at the fetch, or
\* yields a table of `rows` rows with the columns `columns`.  Of the cells
\* only those of a column named col_name are modelled (`col_name`, one value
\* per row; empty when the table has no such column).
ColumnLists == { <<"id", "balance">> }
ServiceBehaviours ==
    { [connect |-> "fail", execute |-> "ok", rows |-> 0, columns |-> c,
       col_name |-> <<>>] : c \in ColumnLists }
    \cup { [connect |-> "ok", execute |-> e, rows |-> 0, columns |-> c,
             col_name |-> <<>>] :
             e \in {"cursor_fault", "execute_fault", "fetch_fault"},
             c \in ColumnLists }
    \cup { [connect |-> "ok", execute |-> "ok", rows |-> r, columns |-> c,
             col_name |-> <<>>] :
             r \in 0..MaxRows, c \in ColumnLists }

\* What the warehouse answers to a DESCRIBE statement: one row per column of
\* the described table, the column's name in col_name.
DESCRIBE_COLUMNS == <<"col_name", "data_type", "comment">>
DescribedColumns == { <<>>, <<"id", "balance">>, <<"loan_amnt", "id">> }
DescribeBehaviours ==
    { [connect |-> "ok", execute |-> "ok", rows |-> Len(cn),
       columns |-> DESCRIBE_COLUMNS, col_name |-> cn] :
             cn \in DescribedColumns }

\* ------------------------------------------------------------------ inputs
QueryNames == {"loan_summary", "overview", "does_not_exist"}
CustomQueries == { <<"SELECT", "*", "FROM", HISTORICAL_LOANS, "LIMIT 10">> }

VARIABLES
    now,             \* the clock, in seconds
    caller,          \* who uses the core: the app (src functions) or a QueryManager user
    warehouse_id,    \* os.getenv('DATABRICKS_WAREHOUSE_ID'): None or <<id>>
    query_manager,   \* src._query_manager: None or <<the instance>>
    managers,        \* number of instances get_query_manager has constructed
    cache_data,      \* entries of st.cache_data
    cache_resource,  \* entries of st.cache_resource
    handles,         \* number of connection handles sql.connect has made
    threads,         \* the calls two sessions have in progress, per thread
    lock,            \* the locks st.cache_data holds while it computes a value
    calls,           \* log: number of calls made so far
    called,          \* log: the (operation, argument) pairs called since the last clear
    last             \* log: the last call, what it did, and the call before it

vars == <<now, caller, warehouse_id, query_manager, managers, cache_data,
          cache_resource, handles, threads, lock, calls, called, last>>

\* ------------------------------------------------------- calls and results
\* A function of the program takes the world w (the caches, the globals and
\* what the running call has done so far) and gives [w, ret, raised].
Return(w, v) == [w |-> w, ret |-> v, raised |-> FALSE]
Raise(w) == [w |-> w, ret |-> None, raised |-> TRUE]
\* st.error / st.warning / st.info / st.expander: one element on the page.
st(w, msg) == [w EXCEPT !.reports = Append(@, msg)]

\* -------------------------------------------------------- Streamlit caches
CacheFresh(e, ttl, t) == t < e.at + ttl
CacheLookup(cache, fn, key, ttl, t) ==
    { e \in cache : e.fn = fn /\ e.key = key /\ CacheFresh(e, ttl, t) }
\* mutant: a store adds its entry and keeps the one the key has
CacheStoreKeepingOld(cache, fn, key, ttl, value, msgs, t) ==
    cache
    \cup { [fn |-> fn, key |-> key, value |-> value, at |-> t, msgs |-> msgs] }

\* a store replaces the entry of the key and drops the function's expired ones
CacheStore(cache, fn, key, ttl, value, msgs, t) ==
    { e \in cache : /\ ~(e.fn = fn /\ e.key = key)
                    /\ (e.fn = fn => CacheFresh(e, ttl, t)) }
    \cup { [fn |-> fn, key |-> key, value |-> value, at |-> t, msgs |-> msgs] }
\* the elements the body added to the page
Emitted(w0, w1) == SubSeq(w1.reports, Len(w0.reports) + 1, Len(w1.reports))

\* @st.cache_data(ttl=...)
st_cache_data(fn, key, ttl, w, Body(_)) ==
    LET hit == CacheLookup(w.cache_data, fn, key, ttl, w.now) IN
    IF hit # {}
    THEN LET e == CHOOSE e \in hit : TRUE IN
         Return([w EXCEPT !.reports = @ \o e.msgs,
                          !.served = @ \cup {w.now - e.at}], e.value)
    ELSE LET r == Body(w) IN
         IF r.raised THEN r
         ELSE Return([r.w EXCEPT !.cache_data =
                         CacheStore(@, fn, key, ttl, r.ret, Emitted(w, r.w),
                                    w.now)],
                     r.ret)

\* @st.cache_resource(ttl=...)
st_cache_resource(fn, key, ttl, w, Body(_)) ==
    LET hit == CacheLookup(w.cache_resource, fn, key, ttl, w.now) IN
    IF hit # {}
    THEN LET e == CHOOSE e \in hit : TRUE IN
         Return([w EXCEPT !.reports = @ \o e.msgs,
                          !.conn_served = @ \cup {w.now - e.at}], e.value)
    ELSE LET r == Body(w) IN
         IF r.raised THEN r
         ELSE Return([r.w EXCEPT !.cache_resource =
                         CacheStore(@, fn, key, ttl, r.ret, Emitted(w, r.w),
                                    w.now)],
                     r.ret)

\* ------------------------------------------------------ DatabaseConnection
DatabaseConnection(env) == [warehouse_id |-> env]

\* mutant: the except branch does not clear the connection cache
get_connection_failed_keeps_cache(w) == Raise(st(w, ERR_CONNECTION))

\* the except branch of get_connection
get_connection_failed(w) ==
    Raise([st(w, ERR_CONNECTION) EXCEPT !.cache_resource = {}])

\* mutant: the warehouse id is not checked before sql.connect
get_connection_body_unchecked(self, svc, w) ==
    LET w1 == [w EXCEPT !.conn_runs = @ + 1, !.connects = @ + 1] IN
    IF svc.connect = "fail"
    THEN get_connection_failed([w1 EXCEPT !.fault = "connect_fault"])
    ELSE Return([w1 EXCEPT !.handles = @ + 1], w1.handles + 1)

\* the body of get_connection, run on a cache miss
get_connection_body(self, svc, w) ==
    LET w0 == [w EXCEPT !.conn_runs = @ + 1] IN
    IF self.warehouse_id = None
    THEN get_connection_failed([w0 EXCEPT !.fault = ERR_NO_WAREHOUSE])
    ELSE LET w1 == [w0 EXCEPT !.connects = @ + 1] IN
         IF svc.connect = "fail"
         THEN get_connection_failed([w1 EXCEPT !.fault = "connect_fault"])
         ELSE Return([w1 EXCEPT !.handles = @ + 1], w1.handles + 1)

\* mutant: the decorator is missing, every call connects
get_connection_uncached(self, svc, w) ==
    get_connection_body(self, svc, [w EXCEPT !.conn_calls = @ + 1])

\* _self is not hashed: one entry for all instances
get_connection(self, svc, w) ==
    st_cache_resource("get_connection", <<>>, CONNECTION_CACHE_TTL,
                      [w EXCEPT !.conn_calls = @ + 1],
                      LAMBDA x : get_connection_body(self, svc, x))

DataFrameEmpty(df) == df.rows = 0 \/ Len(df.columns) = 0

\* mutant: the row count is taken from the columns
get_basic_metadata_of_columns(result_df) ==
    [row_count |-> Len(result_df.columns),
     column_count |-> IF ~DataFrameEmpty(result_df)
                      THEN Len(result_df.columns) ELSE 0,
     columns |-> IF ~DataFrameEmpty(result_df)
                 THEN result_df.columns ELSE <<>>]

\* the metadata execute_query attaches to a result
get_basic_metadata(result_df) ==
    [row_count |-> result_df.rows,
     column_count |-> IF ~DataFrameEmpty(result_df)
                      THEN Len(result_df.columns) ELSE 0,
     columns |-> IF ~DataFrameEmpty(result_df)
                 THEN result_df.columns ELSE <<>>]

\* mutant: the except branch re-raises
execute_query_failed_raises(w) == Raise(st(w, ERR_EXECUTION))

\* mutant: the except branch returns None without st.error
execute_query_failed_silent(w) == Return(w, None)

\* the except branch of execute_query
execute_query_failed(w) == Return(st(w, ERR_EXECUTION), None)

execute_query(self, query, svc, w) ==
    LET c == get_connection(self, svc, w) IN
    IF c.raised
    THEN execute_query_failed(c.w)
    ELSE IF svc.execute = "cursor_fault"
    THEN execute_query_failed([c.w EXCEPT !.handle = Some(c.ret),
                                          !.fault = svc.execute])
    ELSE LET w1 == [c.w EXCEPT !.sent = Append(@, query),
                               !.handle = Some(c.ret)] IN
         IF svc.execute \in {"execute_fault", "fetch_fault"}
         THEN execute_query_failed([w1 EXCEPT !.fault = svc.execute])
         ELSE LET result_df == [rows |-> svc.rows, columns |-> svc.columns,
                                col_name |-> svc.col_name]
                  metadata == get_basic_metadata(result_df)
              IN Return([w1 EXCEPT !.fetched = Some(result_df)],
                        Some([data |-> Some(result_df),
                              metadata |-> metadata]))

\* result['data'].to_dict('records'): one entry per row, of which the
\* col_name cell is modelled
to_dict_records(df) ==
    [i \in 1..df.rows |->
        IF i <= Len(df.col_name) THEN Some(df.col_name[i]) ELSE None]

get_table_info(self, table_name, svc, w) ==
    LET query == <<"DESCRIBE TABLE", table_name>>
        r == execute_query(self, query, svc, w)
    IN IF r.raised THEN Return(st(r.w, WARN_TABLE_INFO), None)
       ELSE IF r.ret # None /\ ~DataFrameEmpty(r.ret[1].data[1])
       THEN LET df == r.ret[1].data[1] IN
            Return(r.w, Some([table_name |-> table_name,
                              columns |-> to_dict_records(df),
                              column_count |-> df.rows]))
       ELSE Return(r.w, None)

\* the probe statement of test_connection
PROBE == <<"SELECT", "1 as test">>

\* mutant: an empty result counts as a working connection
test_connection_any_result(self, svc, w) ==
    LET r == execute_query(self, PROBE, svc, w) IN
    IF r.raised THEN Return(st(r.w, ERR_TEST_FAILED), Some(FALSE))
    ELSE Return(r.w, Some(r.ret # None))

\* `result is not None and not result['data'].empty`
test_connection(self, svc, w) ==
    LET r == execute_query(self, PROBE, svc, w) IN
    IF r.raised THEN Return(st(r.w, ERR_TEST_FAILED), Some(FALSE))
    ELSE Return(r.w, Some(r.ret # None /\ ~DataFrameEmpty(r.ret[1].data[1])))

\* ------------------------------------------------------------ QueryManager
QueryManager(env) == [db |-> DatabaseConnection(env)]

\* `if result and result['data'] is not None`
HasData(result) == result # None /\ result[1].data # None

\* mutant: the decorator is missing
execute_query_uncached(self, query_sql, query_type, svc, w) ==
    execute_query(self.db, query_sql, svc, w)

\* mutant: the cache is keyed by the SQL text alone
execute_query_cached_by_sql(self, query_sql, query_type, svc, w) ==
    st_cache_data("_execute_query_cached", <<query_sql>>,
                  QUERY_CACHE_TTL, w,
                  LAMBDA x : execute_query(self.db, query_sql, svc, x))

\* mutant: the results live as long as the connection
execute_query_cached_too_long(self, query_sql, query_type, svc, w) ==
    st_cache_data("_execute_query_cached", <<query_sql, query_type>>,
                  CONNECTION_CACHE_TTL, w,
                  LAMBDA x : execute_query(self.db, query_sql, svc, x))

\* mutant: the failure sentinel is not kept in the cache
execute_query_cached_unless_failed(self, query_sql, query_type, svc, w) ==
    LET r == st_cache_data("_execute_query_cached", <<query_sql, query_type>>,
                           QUERY_CACHE_TTL, w,
                           LAMBDA x : execute_query(self.db, query_sql, svc, x))
    IN IF r.raised \/ r.ret # None THEN r
       ELSE [r EXCEPT !.w.cache_data =
                { e \in @ : ~(/\ e.fn = "_execute_query_cached"
                              /\ e.key = <<query_sql, query_type>>) }]

\* key: (query_sql, query_type); _self is not hashed
_execute_query_cached(self, query_sql, query_type, svc, w) ==
    st_cache_data("_execute_query_cached", <<query_sql, query_type>>,
                  QUERY_CACHE_TTL, w,
                  LAMBDA x : execute_query(self.db, query_sql, svc, x))

\* mutant: the name is looked up without the membership test (KeyError)
unknown_query_type_raises(w) == Raise(w)

\* the branch of an unregistered name
unknown_query_type(w) == Return(st(st(w, ERR_UNKNOWN), INFO_AVAILABLE), None)

\* mutant: the provider's sentinel is reported by the facade as a failure
execute_predefined_query_sentinel_as_error(self, query_type, svc, w) ==
    IF query_type \notin DOMAIN query_registry
    THEN unknown_query_type(w)
    ELSE LET query_sql == query_registry[query_type]
             r == _execute_query_cached(self, query_sql, query_type, svc,
                                        st(w, EXP_DETAILS))
         IN IF r.raised \/ r.ret = None THEN Return(st(r.w, ERR_FAILED), None)
            ELSE IF HasData(r.ret)
            THEN Return(st(r.w, EXP_RESULTS), r.ret[1].data)
            ELSE Return(st(r.w, WARN_NO_RESULTS), None)

QueryManager_execute_predefined_query(self, query_type, svc, w) ==
    IF query_type \notin DOMAIN query_registry
    THEN unknown_query_type(w)
    ELSE LET query_sql == query_registry[query_type]
             r == _execute_query_cached(self, query_sql, query_type, svc,
                                        st(w, EXP_DETAILS))
         IN IF r.raised THEN Return(st(r.w, ERR_FAILED), None)
            ELSE IF HasData(r.ret)
            THEN Return(st(r.w, EXP_RESULTS), r.ret[1].data)
            ELSE Return(st(r.w, WARN_NO_RESULTS), None)

\* mutant: the no-result branch returns None without st.warning
execute_custom_query_silent(self, query, svc, w) ==
    LET r == execute_query(self.db, query, svc, w) IN
    IF r.raised THEN Return(st(r.w, ERR_CUSTOM_FAILED), None)
    ELSE IF HasData(r.ret)
    THEN Return(r.w, r.ret[1].data)
    ELSE Return(r.w, None)

\* mutant: custom queries go through a result cache keyed by the SQL text
execute_custom_query_cached(self, query, svc, w) ==
    LET r == st_cache_data("execute_custom_query", <<query>>,
                           QUERY_CACHE_TTL, w,
                           LAMBDA x : execute_query(self.db, query, svc, x))
    IN IF r.raised THEN Return(st(r.w, ERR_CUSTOM_FAILED), None)
       ELSE IF HasData(r.ret)
       THEN Return(r.w, r.ret[1].data)
       ELSE Return(st(r.w, WARN_CUSTOM_NO_RESULTS), None)

QueryManager_execute_custom_query(self, query, svc, w) ==
    LET r == execute_query(self.db, query, svc, w) IN
    IF r.raised THEN Return(st(r.w, ERR_CUSTOM_FAILED), None)
    ELSE IF HasData(r.ret)
    THEN Return(r.w, r.ret[1].data)
    ELSE Return(st(r.w, WARN_CUSTOM_NO_RESULTS), None)

QueryManager_test_connection(self, svc, w) == test_connection(self.db, svc, w)

\* the dictionary of get_available_queries: name -> description, a
\* description being the sequence of its words
descriptions ==
    [ loan_summary |-> <<"Overall", "loan", "portfolio", "summary">>,
      loan_status_distribution |-> <<"Distribution", "of", "loans">>,
      grade_analysis |-> <<"Analysis", "by", "loan", "grade">>,
      purpose_analysis |-> <<"Analysis", "by", "loan", "purpose">>,
      state_distribution |-> <<"Geographic", "distribution", "by", "state">>,
      monthly_loan_trend |-> <<"Monthly", "loan", "origination", "trends">>,
      risk_analysis |-> <<"Risk", "analysis", "by", "grade", "and", "status">>,
      employment_analysis |-> <<"Analysis", "by", "employment", "length">>,
      transaction_summary |-> <<"Overall", "accounting", "transaction">>,
      transaction_by_status |-> <<"Accounting", "transactions", "by", "status">>,
      transaction_by_purpose |->
          <<"Accounting", "transactions", "by", "purpose">>,
      payment_analysis |-> <<"Accounting", "analysis", "by", "type">>,
      accounting_treatment_analysis |->
          <<"Accounting", "treatment", "analysis", "with", "lookups">>,
      balance_analysis |-> <<"Balance", "analysis", "by", "type">>,
      accounting_by_state |-> <<"Accounting", "transactions", "by", "state">>,
      interest_analysis |-> <<"Accrued", "interest", "analysis">> ]

\* mutant: a name is described that the registry does not have
get_available_queries_with_unregistered(self, w) ==
    Return(w, Some(("default_analysis" :> <<"Default", "analysis">>)
                   @@ descriptions))

QueryManager_get_available_queries(self, w) == Return(w, Some(descriptions))

\* ------------------------------------------------------------ src/__init__
\* an object and its identity: the n-th instance constructed
New(obj, n) == [id |-> n] @@ obj

\* mutant: every call constructs the instance anew
get_query_manager_fresh(w) ==
    LET qm == New(QueryManager(w.env), w.managers + 1) IN
    Return([w EXCEPT !.query_manager = Some(qm), !.managers = @ + 1,
                     !.manager = Some(qm.id)], qm)

get_query_manager(w) ==
    IF w.query_manager = None
    THEN LET qm == New(QueryManager(w.env), w.managers + 1) IN
         Return([w EXCEPT !.query_manager = Some(qm), !.managers = @ + 1,
                          !.manager = Some(qm.id)], qm)
    ELSE Return([w EXCEPT !.manager = Some(w.query_manager[1].id)],
                w.query_manager[1])

\* mutant: an unregistered name gives None without st.error
unknown_query_type_silent(w) == Return(w, None)

\* the branch of an unregistered name in the module-level function
module_unknown_query_type(w) == Return(st(w, ERR_UNKNOWN), None)

\* mutant: the module-level function executes the SQL of loan_summary
execute_with_loan_summary(qm, query_type, svc, w) ==
    IF query_type \notin DOMAIN query_registry
    THEN module_unknown_query_type(w)
    ELSE LET query_sql == query_registry["loan_summary"]
             r == execute_query(qm.db, query_sql, svc, w)
         IN IF r.raised THEN Return(st(r.w, ERR_FAILED), None)
            ELSE IF HasData(r.ret)
            THEN Return(r.w, r.ret[1].data)
            ELSE Return(st(r.w, WARN_NO_RESULTS), None)

\* the module-level execute_predefined_query after `qm = get_query_manager()`
execute_with(qm, query_type, svc, w) ==
    IF query_type \notin DOMAIN query_registry
    THEN module_unknown_query_type(w)
    ELSE LET query_sql == query_registry[query_type]
             r == execute_query(qm.db, query_sql, svc, w)
         IN IF r.raised THEN Return(st(r.w, ERR_FAILED), None)
            ELSE IF HasData(r.ret)
            THEN Return(r.w, r.ret[1].data)
            ELSE Return(st(r.w, WARN_NO_RESULTS), None)

\* the body of the module-level execute_predefined_query
execute_predefined_query_body(query_type, svc, w) ==
    LET g == get_query_manager(w) IN
    execute_with(g.ret, query_type, svc, g.w)

\* key: (query_type)
execute_predefined_query(query_type, svc, w) ==
    st_cache_data("execute_predefined_query", <<query_type>>,
                  MODULE_CACHE_TTL, w,
                  LAMBDA x : execute_predefined_query_body(query_type, svc, x))

execute_custom_query(query, svc, w) ==
    LET g == get_query_manager(w) IN
    QueryManager_execute_custom_query(g.ret, query, svc, g.w)

initialize_connection(svc, w) ==
    LET g == get_query_manager(w) IN
    QueryManager_test_connection(g.ret, svc, g.w)

\* --------------------------------------------------------- SchemaValidator
SchemaValidator(env) == [db |-> DatabaseConnection(env)]

\* `if columns:` : a list that is neither None nor empty
Truthy(columns) == columns # None /\ columns[1] # <<>>
\* the elements of a list
Elements(list) == { list[i] : i \in 1..Len(list) }

\* mutant: no try/except, a failing DESCRIBE raises
get_table_columns_raises(self, table_name, svc, w) ==
    LET query == <<"DESCRIBE", table_name>>
        r0 == execute_query(self.db, query, svc, w)
        r == [r0 EXCEPT !.w.answers = Append(@, r0.ret)]
    IN IF r.ret # None /\ ~DataFrameEmpty(r.ret[1].data[1])
          /\ "col_name" \in Elements(r.ret[1].data[1].columns)
       THEN Return(r.w, Some(r.ret[1].data[1].col_name))
       ELSE Raise(r.w)

\* result['data']['col_name'].tolist(); a frame without a col_name column
\* gives a KeyError, which the except branch turns into a warning
get_table_columns(self, table_name, svc, w) ==
    LET query == <<"DESCRIBE", table_name>>
        r0 == execute_query(self.db, query, svc, w)
        r == [r0 EXCEPT !.w.answers = Append(@, r0.ret)]
    IN IF r.raised THEN Return(st(r.w, WARN_COLUMNS), None)
       ELSE IF r.ret # None /\ ~DataFrameEmpty(r.ret[1].data[1])
       THEN LET df == r.ret[1].data[1] IN
            IF "col_name" \notin Elements(df.columns)
            THEN Return(st(r.w, WARN_COLUMNS), None)
            ELSE Return(r.w, Some(df.col_name))
       ELSE Return(r.w, None)

validate_column_exists(self, table_name, column_name, svc, w) ==
    LET c == get_table_columns(self, table_name, svc, w) IN
    IF c.raised THEN c
    ELSE IF Truthy(c.ret)
    THEN Return(c.w, Some(column_name \in Elements(c.ret[1])))
    ELSE Return(c.w, Some(FALSE))

get_sample_data(self, table_name, limit, svc, w) ==
    LET query == <<"SELECT", "*", "FROM", table_name, "LIMIT", limit>>
        r == execute_query(self.db, query, svc, w)
    IN IF r.raised THEN Return(st(r.w, WARN_SAMPLE), None)
       ELSE IF r.ret # None /\ ~DataFrameEmpty(r.ret[1].data[1])
       THEN LET df == r.ret[1].data[1] IN
            Return(r.w, Some([columns |-> df.columns,
                              sample_data |-> to_dict_records(df)[1],
                              row_count |-> df.rows]))
       ELSE Return(r.w, None)

\* the tables of validate_all_tables, in its order
TABLES == <<HISTORICAL_LOANS, RAW_TRANSACTIONS, REF_ACCOUNTING>>
\* table.split('.')
split_dots ==
    (HISTORICAL_LOANS :> <<"efeld_cuj", "loan_io", "historical_loans">>)
    @@ (RAW_TRANSACTIONS :> <<"efeld_cuj", "loan_io", "raw_transactions">>)
    @@ (REF_ACCOUNTING :> <<"efeld_cuj", "loan_io", "ref_accounting">>)
\* table.split('.')[-1]
table_short_name(table) == split_dots[table][Len(split_dots[table])]

\* mutant: the flag looks at the first column only
has_field_first(columns, field) ==
    IF Truthy(columns) THEN field = columns[1][1] ELSE FALSE

\* `columns and field in columns if columns else False`
has_field(columns, field) ==
    IF Truthy(columns) THEN field \in Elements(columns[1]) ELSE FALSE

\* the entry of one table in the results
table_entry(table, columns, sample) ==
    [full_name |-> table,
     columns |-> columns,
     column_count |-> IF Truthy(columns) THEN Len(columns[1]) ELSE 0,
     sample_data |-> sample,
     has_loan_amnt |-> has_field(columns, "loan_amnt"),
     has_balance |-> has_field(columns, "balance")]

\* the key findings shown for one table
show_findings(columns, w) ==
    IF Truthy(columns)
    THEN st(st(st(st(w, SUCCESS_COLUMNS_FOUND), WRITE_FIRST_COLUMNS),
               WRITE_LOAN_FIELDS), WRITE_ACCOUNTING_FIELDS)
    ELSE st(w, ERR_NO_COLUMNS)

\* the loop of validate_all_tables over the remaining tables
RECURSIVE validate_tables(_, _, _, _, _)
validate_tables(self, tables, svcs, results, w) ==
    IF tables = <<>> THEN Return(w, Some(results))
    ELSE LET table == Head(tables)
             c == get_table_columns(self, table, svcs[table].describe,
                                    st(w, WRITE_VALIDATING))
         IN IF c.raised THEN c
            ELSE LET sd == get_sample_data(self, table, 1,
                                           svcs[table].sample, c.w)
                 IN IF sd.raised THEN sd
                    ELSE validate_tables(
                             self, Tail(tables), svcs,
                             (table_short_name(table)
                                  :> table_entry(table, c.ret, sd.ret))
                             @@ results,
                             show_findings(c.ret, sd.w))

validate_all_tables(self, svcs, w) ==
    validate_tables(self, TABLES, svcs, <<>>, w)

\* --------------------------------------------------------------- src/app.py
\* mutant: st.cache_data.clear() is missing
clear_resource_only(w) ==
    Return(st([w EXCEPT !.cache_resource = {}], SUCCESS_CLEARED), None)

\* mutant: st.cache_resource.clear() is missing
clear_data_only(w) ==
    Return(st([w EXCEPT !.cache_data = {}], SUCCESS_CLEARED), None)

\* the "Clear All Cache" button of sidebar_filters
clear_all_cache(w) ==
    Return(st([w EXCEPT !.cache_data = {}, !.cache_resource = {}],
              SUCCESS_CLEARED), None)

\* the "Refresh Data" button of sidebar_filters
refresh_data(w) ==
    Return([w EXCEPT !.cache_data = {}, !.cache_resource = {}], None)


\* ------------------------------------------------------------- the machine
OP_QM_NAMED == "QueryManager.execute_predefined_query"
OP_NAMED == "execute_predefined_query"
OP_QM_CUSTOM == "QueryManager.execute_custom_query"
OP_CUSTOM == "execute_custom_query"
OP_CLEAR == "clear_all_cache"
OP_REFRESH == "refresh_data"
NamedOps == {OP_QM_NAMED, OP_NAMED}
CustomOps == {OP_QM_CUSTOM, OP_CUSTOM}
ClearOps == {OP_CLEAR, OP_REFRESH}
OP_GET_QUERY_MANAGER == "get_query_manager"
OP_INITIALIZE == "initialize_connection"
OP_RESOLVE == "QueryManager.query_registry"
OP_LIST == "QueryManager.get_available_queries"

NoService == CHOOSE svc \in ServiceBehaviours : TRUE

\* the world a call starts in
Start ==
    [now |-> now, env |-> warehouse_id, query_manager |-> query_manager,
     managers |-> managers, manager |-> None,
     cache_data |-> cache_data, cache_resource |-> cache_resource,
     handles |-> handles, reports |-> <<>>, sent |-> <<>>, connects |-> 0,
     conn_calls |-> 0, conn_runs |-> 0, handle |-> None, served |-> {},
     conn_served |-> {}, fault |-> "none", fetched |-> None,
     answers |-> <<>>]

\* what the log keeps of the call before (of its result: that of a facade
\* call or of a lookup in the registry)
Summary(l) ==
    [op |-> l.op, arg |-> l.arg, at |-> l.at,
     ret |-> IF l.op \in NamedOps \cup CustomOps \cup {OP_RESOLVE}
             THEN l.ret ELSE None,
     conn_calls |-> l.conn_calls, handles |-> l.handles,
     handle |-> l.handle, handle_at |-> l.handle_at,
     entries_before |-> l.entries_before]

\* when the handle the call obtained was made: now, or the age of the entry
\* it was served from before now
HandleAt(w) ==
    IF w.handle = None THEN 0
    ELSE IF w.conn_served = {} THEN w.now
    ELSE w.now - (CHOOSE age \in w.conn_served :
                      \A other \in w.conn_served : other <= age)

\* what the log keeps of a call
Record(op, arg, svc, r) ==
    [op |-> op, arg |-> arg, at |-> now,
     fault |-> r.w.fault, fetched |-> r.w.fetched,
     ret |-> r.ret, raised |-> r.raised, reports |-> r.w.reports,
     sent |-> r.w.sent, connects |-> r.w.connects,
     conn_calls |-> r.w.conn_calls, conn_runs |-> r.w.conn_runs,
     handle |-> r.w.handle, handle_at |-> HandleAt(r.w),
     handles |-> r.w.handles,
     served |-> r.w.served, conn_served |-> r.w.conn_served,
     answers |-> r.w.answers, manager |-> r.w.manager,
     entries_before |-> Cardinality(cache_data) + Cardinality(cache_resource),
     first_call |-> <<op, arg>> \notin called,
     prev |-> Summary(last)]

\* the state after a call
Commit(op, arg, svc, r) ==
    /\ calls < MaxCalls
    /\ calls' = calls + 1
    /\ query_manager' = r.w.query_manager
    /\ managers' = r.w.managers
    /\ cache_data' = r.w.cache_data
    /\ cache_resource' = r.w.cache_resource
    /\ handles' = r.w.handles
    /\ last' = Record(op, arg, svc, r)
    /\ called' = IF op \in ClearOps THEN {} ELSE called \cup { <<op, arg>> }
    /\ UNCHANGED <<now, caller, warehouse_id, threads, lock>>

NoCall ==
    [op |-> "init", arg |-> <<>>, at |-> 0, ret |-> None, conn_calls |-> 0,
     handles |-> 0, handle |-> None, handle_at |-> 0, entries_before |-> 0]

\* the log before the first call
Boot ==
    [op |-> "init", arg |-> <<>>, at |-> 0,
     fault |-> "none", fetched |-> None, ret |-> None, raised |-> FALSE,
     reports |-> <<>>, sent |-> <<>>, connects |-> 0, conn_calls |-> 0,
     conn_runs |-> 0, handle |-> None, handle_at |-> 0, handles |-> 0,
     served |-> {}, conn_served |-> {}, answers |-> <<>>, manager |-> None,
     entries_before |-> 0, first_call |-> FALSE, prev |-> NoCall]

\* the process right after start, used by `who`
Process(who) ==
    /\ now = 0
    /\ caller \in who
    /\ warehouse_id \in {None, Some("test_warehouse_id")}
    /\ query_manager = None
    /\ managers = 0
    /\ cache_data = {}
    /\ cache_resource = {}
    /\ handles = 0
    /\ calls = 0
    /\ called = {}
    /\ last = Boot

\* calls are made one after the other: no thread has a call in progress
NoThreads == <<>>
NoLock == [used |-> FALSE, held |-> {}]
Started(who) ==
    /\ Process(who)
    /\ threads = NoThreads
    /\ lock = NoLock

Init == Started({"app", "QueryManager"})

\* QueryManager().execute_predefined_query(query_type)
QMExecutePredefined ==
    \E query_type \in QueryNames, svc \in ServiceBehaviours :
        /\ caller = "QueryManager"
        /\ Commit(OP_QM_NAMED, <<query_type>>, svc,
                  QueryManager_execute_predefined_query(
                      QueryManager(warehouse_id), query_type, svc, Start))

\* src.execute_predefined_query(query_type)
ExecutePredefined ==
    \E query_type \in QueryNames, svc \in ServiceBehaviours :
        /\ caller = "app"
        /\ Commit(OP_NAMED, <<query_type>>, svc,
                  execute_predefined_query(query_type, svc, Start))

\* QueryManager().execute_custom_query(query)
QMExecuteCustom ==
    \E query \in CustomQueries, svc \in ServiceBehaviours :
        /\ caller = "QueryManager"
        /\ Commit(OP_QM_CUSTOM, query, svc,
                  QueryManager_execute_custom_query(
                      QueryManager(warehouse_id), query, svc, Start))

\* src.execute_custom_query(query)
ExecuteCustom ==
    \E query \in CustomQueries, svc \in ServiceBehaviours :
        /\ caller = "app"
        /\ Commit(OP_CUSTOM, query, svc,
                  execute_custom_query(query, svc, Start))

\* the operator presses "Clear All Cache"
ClearAllCache ==
    Commit(OP_CLEAR, <<>>, NoService, clear_all_cache(Start))

\* the operator presses "Refresh Data"
RefreshData ==
    Commit(OP_REFRESH, <<>>, NoService, refresh_data(Start))

\* time passes between two calls
AdvanceTime ==
    /\ now + Tick <= MaxTime
    /\ now' = now + Tick
    /\ UNCHANGED <<caller, warehouse_id, query_manager, managers, cache_data,
                   cache_resource, handles, threads, lock, calls, called,
                   last>>

Next ==
    \/ QMExecutePredefined
    \/ ExecutePredefined
    \/ QMExecuteCustom
    \/ ExecuteCustom
    \/ ClearAllCache
    \/ RefreshData
    \/ AdvanceTime

Spec == Init /\ [][Next]_vars

\* ------------------------------------------------- a session of the app
\* the instance a get_query_manager returned, as a result
Instance(r) == [r EXCEPT !.ret = Some(r.ret)]

\* src.get_query_manager()
GetQueryManager ==
    /\ caller = "app"
    /\ Commit(OP_GET_QUERY_MANAGER, <<>>, NoService,
              Instance(get_query_manager(Start)))

\* src.initialize_connection()
InitializeConnection ==
    \E svc \in ServiceBehaviours :
        /\ caller = "app"
        /\ Commit(OP_INITIALIZE, <<>>, svc, initialize_connection(svc, Start))

InitApp == Started({"app"})

NextApp ==
    \/ GetQueryManager
    \/ InitializeConnection
    \/ ExecutePredefined
    \/ ExecuteCustom
    \/ ClearAllCache
    \/ RefreshData
    \/ AdvanceTime

SpecApp == InitApp /\ [][NextApp]_vars

\* ------------------------------------- direct users of DatabaseConnection
OP_GET_CONNECTION == "DatabaseConnection.get_connection"
OP_EXECUTE_QUERY == "DatabaseConnection.execute_query"
OP_GET_TABLE_INFO == "DatabaseConnection.get_table_info"

\* the owners of a DatabaseConnection instance
Owners == {"QueryManager", "SchemaValidator"}
InstanceOf(owner) ==
    IF owner = "QueryManager" THEN QueryManager(warehouse_id).db
    ELSE SchemaValidator(warehouse_id).db

\* sql.connect fails or succeeds (no statement is sent)
ConnectBehaviours ==
    { svc \in ServiceBehaviours : svc.execute = "ok" /\ svc.rows = 0 }

\* the log of a direct get_connection: the handle is what it returned
WithHandle(r) ==
    IF r.raised THEN r ELSE [r EXCEPT !.w.handle = Some(r.ret)]

\* owner.db.get_connection()
GetConnection ==
    \E owner \in Owners, svc \in ConnectBehaviours :
        /\ caller = "DatabaseConnection"
        /\ Commit(OP_GET_CONNECTION, <<owner>>, svc,
                  WithHandle(get_connection(InstanceOf(owner), svc, Start)))

\* DatabaseConnection().execute_query(query)
ExecuteQuery ==
    \E query \in CustomQueries,
       svc \in ServiceBehaviours \cup DescribeBehaviours :
        /\ caller = "DatabaseConnection"
        /\ Commit(OP_EXECUTE_QUERY, query, svc,
                  execute_query(DatabaseConnection(warehouse_id), query, svc,
                                Start))

\* DatabaseConnection().get_table_info(table_name)
GetTableInfo ==
    \E table_name \in {HISTORICAL_LOANS},
       svc \in ServiceBehaviours \cup DescribeBehaviours :
        /\ caller = "DatabaseConnection"
        /\ Commit(OP_GET_TABLE_INFO, <<table_name>>, svc,
                  get_table_info(DatabaseConnection(warehouse_id), table_name,
                                 svc, Start))

InitDB == Started({"DatabaseConnection"})

NextDB ==
    \/ GetConnection
    \/ ExecuteQuery
    \/ GetTableInfo
    \/ ClearAllCache
    \/ RefreshData
    \/ AdvanceTime

SpecDB == InitDB /\ [][NextDB]_vars

\* --------------------------------------------- users of the SchemaValidator
OP_VALIDATE_ALL == "SchemaValidator.validate_all_tables"
OP_GET_TABLE_COLUMNS == "SchemaValidator.get_table_columns"
OP_VALIDATE_COLUMN == "SchemaValidator.validate_column_exists"
SchemaOps == {OP_VALIDATE_ALL, OP_GET_TABLE_COLUMNS, OP_VALIDATE_COLUMN}

\* what the warehouse may answer to a DESCRIBE: a fault, the description
\* (of no, or of two columns), or a frame that has no col_name column
DescribeAnswers ==
    { svc \in ServiceBehaviours :
          svc.connect = "ok" /\ svc.execute \in {"execute_fault", "ok"}
          /\ (svc.execute = "ok" => svc.rows = 1) }
    \cup DescribeBehaviours
\* what it may answer to each DESCRIBE of validate_all_tables: a fault or
\* the description of two columns
TableAnswers ==
    { svc \in DescribeAnswers : svc.execute = "ok" => svc.col_name # <<>> }
\* what it may answer to the SELECT of the sample row
SampleAnswers ==
    { svc \in ServiceBehaviours :
          svc.connect = "ok" /\ svc.execute \in {"fetch_fault", "ok"}
          /\ (svc.execute = "ok" => svc.rows = 1) }
\* the fields the debug tool asks for
CheckedFields == {"loan_amnt", "balance"}

\* SchemaValidator().validate_all_tables()
ValidateAllTables ==
    \E describes \in [Elements(TABLES) -> TableAnswers],
       sample \in SampleAnswers :
        /\ caller = "SchemaValidator"
        /\ Commit(OP_VALIDATE_ALL, <<>>, NoService,
                  validate_all_tables(
                      SchemaValidator(warehouse_id),
                      [t \in Elements(TABLES) |->
                          [describe |-> describes[t], sample |-> sample]],
                      Start))

\* SchemaValidator().get_table_columns(table_name)
GetTableColumns ==
    \E table_name \in {REF_ACCOUNTING},
       svc \in DescribeAnswers \cup ConnectBehaviours :
        /\ caller = "SchemaValidator"
        /\ Commit(OP_GET_TABLE_COLUMNS, <<table_name>>, svc,
                  get_table_columns(SchemaValidator(warehouse_id),
                                    table_name, svc, Start))

\* SchemaValidator().validate_column_exists(table_name, column_name)
ValidateColumnExists ==
    \E table_name \in {REF_ACCOUNTING}, column_name \in CheckedFields,
       svc \in DescribeAnswers \cup ConnectBehaviours :
        /\ caller = "SchemaValidator"
        /\ Commit(OP_VALIDATE_COLUMN, <<table_name, column_name>>, svc,
                  validate_column_exists(SchemaValidator(warehouse_id),
                                         table_name, column_name, svc,
                                         Start))

InitSV == Started({"SchemaValidator"})

\* one run of the debug tool: it has no cache controls, and its calls follow
\* each other within the lifetime of the connection handle
NextSV ==
    \/ ValidateAllTables
    \/ GetTableColumns
    \/ ValidateColumnExists

SpecSV == InitSV /\ [][NextSV]_vars

\* ------------------------------------------------- users of the registry
\* mutant: the legacy name overview is bound to another template
resolve_overview_as_grades(self, query_type, w) ==
    Return(w, Some(IF query_type = "overview" THEN get_grade_analysis
                   ELSE query_registry[query_type]))

\* query_func = self.query_registry[query_type]; query_sql = query_func()
resolve(self, query_type, w) == Return(w, Some(query_registry[query_type]))

\* QueryManager().query_registry[query_type]()
ResolveQuery ==
    \E query_type \in DOMAIN query_registry :
        /\ caller = "Catalog"
        /\ Commit(OP_RESOLVE, <<query_type>>, NoService,
                  resolve(QueryManager(warehouse_id), query_type, Start))

\* QueryManager().get_available_queries()
ListAvailable ==
    /\ caller = "Catalog"
    /\ Commit(OP_LIST, <<>>, NoService,
              QueryManager_get_available_queries(QueryManager(warehouse_id),
                                                 Start))

InitCatalog == Started({"Catalog"})

\* a lookup depends on nothing but the name
NextCatalog ==
    \/ ResolveQuery
    \/ ListAvailable

SpecCatalog == InitCatalog /\ [][NextCatalog]_vars

\* ------------------------------------------------------------ properties
\* a message of the set S is among the reports of the call l
Reported(l, S) == \E i \in 1..Len(l.reports) : l.reports[i] \in S
\* the call l is a named execution of a registered / an unregistered name
NamedRegistered(l) == l.op \in NamedOps /\ l.arg[1] \in DOMAIN query_registry
NamedUnknown(l) == l.op \in NamedOps /\ l.arg[1] \notin DOMAIN query_registry
\* the TTL of the result cache behind the operation
TTLOf(op) == IF op = OP_QM_NAMED THEN QUERY_CACHE_TTL ELSE MODULE_CACHE_TTL
\* the call before the last one had the same operation and argument, reached
\* the provider, and no clear came in between
RepeatsExecuted(l) ==
    /\ l.prev.op = l.op
    /\ l.prev.arg = l.arg
    /\ l.prev.conn_calls > 0
ExecutionFaults == {"cursor_fault", "execute_fault", "fetch_fault"}

\* C1: for every registered name, when the service returns a result set with
\* zero rows, execute_named returns null, reports a warning and reports no
\* error.
C1_EmptyResultIsNullWithWarning ==
    (/\ NamedRegistered(last)
     /\ last.fetched # None
     /\ last.fetched[1].rows = 0)
    => (/\ last.ret = None
        /\ Reported(last, Warnings)
        /\ ~Reported(last, Errors))

\* C2: for every name that is not in the registry, execute_named returns
\* null, reports an error and reaches neither get_connection nor
\* cursor.execute, whatever the caches hold.
C2_UnknownNameSendsNoSQL ==
    NamedUnknown(last)
    => (/\ last.ret = None
        /\ ~last.raised
        /\ Reported(last, Errors)
        /\ last.sent = <<>>
        /\ last.conn_calls = 0
        /\ last.connects = 0)

\* an unregistered name answered from the module-level cache, with entries
\* in the caches
C2_Witness ==
    /\ NamedUnknown(last)
    /\ last.served # {}
    /\ last.entries_before > 1
    /\ Reported(last, Errors)

\* C3: for every registered name, when the call to the service raises an
\* execution fault, execute_named returns null, an error is reported and the
\* fault does not escape.
C3_ExecutionFaultIsReported ==
    (NamedRegistered(last) /\ last.fault \in ExecutionFaults)
    => (/\ last.ret = None
        /\ Reported(last, Errors)
        /\ ~last.raised)

C3_Witness ==
    /\ NamedRegistered(last)
    /\ last.fault = "execute_fault"
    /\ last.sent = <<query_registry[last.arg[1]]>>
    /\ last.ret = None

\* C4: for every input and every behaviour of the service, execute_named and
\* execute_literal end with a value (a result or null) and raise nothing.
C4_FacadeNeverRaises ==
    (last.op \in NamedOps \cup CustomOps)
    => (/\ ~last.raised
        /\ \/ last.ret = None
           \/ last.ret = last.fetched
           \/ last.served # {})

\* get_connection raised inside a call (no warehouse id) and the call
\* still returned null
C4_Witness ==
    /\ last.op \in NamedOps \cup CustomOps
    /\ warehouse_id = None
    /\ last.conn_runs = 1
    /\ last.ret = None
    /\ ~last.raised

AfterAlias(l) ==
    /\ NamedRegistered(l)
    /\ l.prev.op = l.op
    /\ l.prev.arg # l.arg
    /\ l.prev.arg[1] \in DOMAIN query_registry
    /\ query_registry[l.prev.arg[1]] = query_registry[l.arg[1]]
    /\ l.prev.conn_calls > 0
    /\ l.prev.ret # None
    /\ l.prev.ret[1].rows > 0
    /\ l.at - l.prev.at < TTLOf(l.op)

\* C6 as stated: two registered names that resolve to the same SQL text
\* share one cache entry, so executing one within the TTL after the other
\* succeeded does not call the service.
C6_AliasSharesEntry ==
    AfterAlias(last) => (last.conn_calls = 0 /\ last.sent = <<>>)

\* C6 amended: the result cache is keyed by the query name (together with
\* the SQL text in QueryManager), so the first execute_named of a name since
\* the last clear reaches the provider, also right after another name with
\* the same SQL text succeeded.
C6_NamesHaveSeparateEntries ==
    (NamedRegistered(last) /\ last.first_call)
    => (last.served = {} /\ last.conn_calls = 1)

C6_Witness ==
    /\ AfterAlias(last)
    /\ last.first_call
    /\ last.conn_calls = 1
    /\ last.sent = <<query_registry[last.arg[1]]>>

\* C7: a result-cache entry expires after its 5-minute TTL: the first
\* execute_named of a name after the TTL has elapsed calls the provider
\* again, and no entry of the TTL's age or older is served.
C7_EntriesExpire ==
    /\ (/\ NamedRegistered(last)
        /\ RepeatsExecuted(last)
        /\ last.at - last.prev.at >= TTLOf(last.op))
       => (last.served = {} /\ last.conn_calls = 1)
    /\ (last.op \in NamedOps)
       => (\A age \in last.served : age < TTLOf(last.op))

C7_Witness ==
    /\ NamedRegistered(last)
    /\ RepeatsExecuted(last)
    /\ last.prev.ret # None
    /\ last.at - last.prev.at >= TTLOf(last.op)
    /\ last.conn_calls = 1

\* C8: after the clear-all operation, the next execute_named of a registered
\* name reaches the provider (get_connection runs its body, and connects
\* when the warehouse id is set), whatever was cached before the clear.
C8_ClearThenCallReachesService ==
    (NamedRegistered(last) /\ last.prev.op \in ClearOps)
    => (/\ last.served = {}
        /\ last.conn_calls = 1
        /\ last.conn_runs = 1
        /\ (warehouse_id # None => last.connects = 1))

C8_Witness ==
    /\ NamedRegistered(last)
    /\ last.prev.op = OP_CLEAR
    /\ last.prev.entries_before > 1
    /\ last.connects = 1
    /\ last.sent = <<query_registry[last.arg[1]]>>

\* C9: the clear-all operation can be taken in every reachable state, does
\* not fail, leaves the result cache and the connection cache empty, and the
\* next get_connection runs its body and gives a handle made after the clear.
C9_ClearAlwaysPossible ==
    /\ (calls < MaxCalls) => ENABLED ClearAllCache
    /\ (last.op \in ClearOps)
       => (~last.raised /\ cache_data = {} /\ cache_resource = {})
    /\ (last.prev.op \in ClearOps /\ last.conn_calls > 0)
       => (/\ last.conn_served = {}
           /\ last.conn_runs = 1
           /\ (last.handle # None => last.handle[1] > last.prev.handles))

\* a second handle is made after a clear that dropped the first one
C9_Witness ==
    /\ last.prev.op = OP_CLEAR
    /\ last.prev.entries_before > 0
    /\ last.prev.handles = 1
    /\ last.handle = Some(2)

\* the call before the last one was the same execute_literal, with a result
\* of at least one row, within the TTL
RepeatsLiteral(l) ==
    /\ l.op \in CustomOps
    /\ RepeatsExecuted(l)
    /\ l.prev.ret # None
    /\ l.prev.ret[1].rows > 0
    /\ l.at - l.prev.at < QUERY_CACHE_TTL

\* C10 as stated: within the TTL and with no clear in between, a second
\* execute_literal with the identical SQL text after a successful first one
\* does not call the service again.
C10_LiteralServedFromCache ==
    RepeatsLiteral(last) => (last.conn_calls = 0 /\ last.sent = <<>>)

\* C10 amended: execute_literal has no result cache: every call reaches the
\* provider, and sends its SQL text whenever a connection and a cursor are
\* obtained, also a repeat of identical SQL within the TTL.
C10_LiteralIsNeverCached ==
    (last.op \in CustomOps)
    => (/\ last.served = {}
        /\ last.conn_calls = 1
        /\ (last.handle # None /\ last.fault # "cursor_fault")
           => last.sent = <<last.arg>>)

C10_Witness ==
    /\ RepeatsLiteral(last)
    /\ last.at - last.prev.at = 0
    /\ last.conn_calls = 1
    /\ last.sent = <<last.arg>>
    /\ last.ret # None

\* ------------------------------------------- properties of the provider
\* how many of the reports of the call l are messages of the set S
CountOf(l, S) == Cardinality({ i \in 1..Len(l.reports) : l.reports[i] \in S })
\* the call l failed while the connection was being established
ConnectionFailed(l) == l.fault \in {"connect_fault", ERR_NO_WAREHOUSE}
\* the call before l reached get_connection and got no handle
AfterFailedConnection(l) == l.prev.conn_calls > 0 /\ l.prev.handle = None

\* C11: when sql.connect fails, no entry stays in the connection cache, the
\* failure is raised to a direct caller of get_connection, and the next
\* get_connection is not served from the cache: it runs its body and (the
\* warehouse id being set) calls sql.connect again.
C11_FailedConnectLeavesNoHandle ==
    /\ (last.fault = "connect_fault")
       => (/\ cache_resource = {}
           /\ last.handle = None
           /\ Reported(last, {ERR_CONNECTION}))
    /\ (last.op = OP_GET_CONNECTION /\ last.fault = "connect_fault")
       => last.raised
    /\ (AfterFailedConnection(last) /\ last.conn_calls > 0)
       => (/\ last.conn_served = {}
           /\ last.conn_runs = 1
           /\ (warehouse_id # None => last.connects = 1))

\* a handle was made, it expired, a connect failed, and the next
\* get_connection made the second handle
C11_Witness ==
    /\ AfterFailedConnection(last)
    /\ last.prev.handles = 1
    /\ last.op = OP_GET_CONNECTION
    /\ last.connects = 1
    /\ last.handle = Some(2)

C13_ConnectionIsLazySingleton ==
    /\ (calls = 0) => (handles = 0 /\ cache_resource = {})
    /\ (last.conn_calls = 0)
       => (last.connects = 0 /\ last.handles = last.prev.handles)
    /\ (/\ last.prev.handle # None
        /\ last.conn_calls > 0
        /\ last.at - last.prev.handle_at < CONNECTION_CACHE_TTL)
       => (/\ last.handle = last.prev.handle
           /\ last.connects = 0
           /\ last.handles = last.prev.handles)

\* the SchemaValidator's instance gets the handle the QueryManager's made
C13_Witness ==
    /\ last.prev.op = OP_GET_CONNECTION
    /\ last.prev.arg = <<"QueryManager">>
    /\ last.op = OP_GET_CONNECTION
    /\ last.arg = <<"SchemaValidator">>
    /\ last.at - last.prev.handle_at = 2 * Tick
    /\ last.handle = Some(1)
    /\ last.prev.handle = Some(1)
    /\ last.handles = 1

\* C14 as stated: execute_query never raises, and on any failure it returns
\* None and reports exactly one error.
C14_ExactlyOneErrorOnFailure ==
    (last.op = OP_EXECUTE_QUERY)
    => (/\ ~last.raised
        /\ (last.fault # "none")
           => (last.ret = None /\ CountOf(last, Errors) = 1))

\* C14 amended: execute_query never raises; it returns None exactly on a
\* failure and then reports "Query execution failed" once; a failure of the
\* connection establishment has been reported by get_connection before, so
\* that call reports two errors, any other failure one; a call that returns
\* a result reports no error.
C14_FailureIsReportedNotRaised ==
    (last.op = OP_EXECUTE_QUERY)
    => (/\ ~last.raised
        /\ (last.fault # "none") <=> (last.ret = None)
        /\ (last.ret = None)
           => (/\ CountOf(last, {ERR_EXECUTION}) = 1
               /\ CountOf(last, {ERR_CONNECTION})
                     = (IF ConnectionFailed(last) THEN 1 ELSE 0)
               /\ CountOf(last, Errors)
                     = (IF ConnectionFailed(last) THEN 2 ELSE 1))
        /\ (last.ret # None) => (CountOf(last, Errors) = 0))

C14_Witness ==
    /\ last.op = OP_EXECUTE_QUERY
    /\ last.fault = "connect_fault"
    /\ last.reports = <<ERR_CONNECTION, ERR_EXECUTION>>
    /\ last.ret = None

\* C15 as stated: for a result of R rows and N columns, zero rows included,
\* the metadata has row_count R, column_count N and the N column names.
C15_MetadataMatchesResult ==
    (last.op = OP_EXECUTE_QUERY /\ last.fetched # None)
    => (/\ last.ret # None
        /\ last.ret[1].metadata.row_count = last.fetched[1].rows
        /\ last.ret[1].metadata.column_count = Len(last.fetched[1].columns)
        /\ last.ret[1].metadata.columns = last.fetched[1].columns)

\* C15 amended: for a result of R rows and N >= 1 columns the metadata has
\* row_count R; with R >= 1 it has column_count N and the N column names in
\* order, with R = 0 it has column_count 0 and no column names.
C15_MetadataOfResult ==
    (last.op = OP_EXECUTE_QUERY /\ last.fetched # None)
    => (/\ last.ret # None
        /\ last.ret[1].data = last.fetched
        /\ last.ret[1].metadata.row_count = last.fetched[1].rows
        /\ (last.fetched[1].rows >= 1)
           => (/\ last.ret[1].metadata.column_count
                     = Len(last.fetched[1].columns)
               /\ last.ret[1].metadata.columns = last.fetched[1].columns)
        /\ (last.fetched[1].rows = 0)
           => (/\ last.ret[1].metadata.column_count = 0
               /\ last.ret[1].metadata.columns = <<>>))

\* a result of zero rows and three columns
C15_Witness ==
    /\ last.op = OP_EXECUTE_QUERY
    /\ last.fetched # None
    /\ last.fetched[1].rows = 0
    /\ Len(last.fetched[1].columns) = 3
    /\ last.ret[1].metadata.column_count = 0

\* C17: when the execute under get_table_info gives the no-result sentinel,
\* get_table_info returns None and reports exactly one warning.
C17_NoDescriptionWarnsOnce ==
    (last.op = OP_GET_TABLE_INFO /\ last.fault # "none")
    => (last.ret = None /\ CountOf(last, Warnings) = 1)

\* ---------------------------------------------- properties of the reports
\* the status messages: st.success, st.warning, st.error
Statuses == Errors \cup Warnings \cup Successes
\* the statuses the facade functions report themselves
FacadeStatuses ==
    {ERR_UNKNOWN, WARN_NO_RESULTS, ERR_FAILED, WARN_CUSTOM_NO_RESULTS,
     ERR_CUSTOM_FAILED}

\* C16 as stated: every execute_named and every execute_literal surfaces at
\* least one status message (success, warning or error), on every outcome.
C16_EveryCallSurfacesStatus ==
    (last.op \in NamedOps \cup CustomOps) => (CountOf(last, Statuses) >= 1)

\* C16 amended: an execute_named or execute_literal that returns null
\* surfaces exactly one warning or error of the facade (besides those of the
\* provider); one that returns a result surfaces no success, warning or
\* error at all: QueryManager.execute_predefined_query shows its two
\* expanders, the other entry points show nothing.
C16_StatusOnlyWithoutResult ==
    (last.op \in NamedOps \cup CustomOps)
    => (/\ (last.ret = None) => (CountOf(last, FacadeStatuses) = 1)
        /\ (last.ret # None)
           => (/\ CountOf(last, Statuses) = 0
               /\ last.reports = (IF last.op = OP_QM_NAMED
                                  THEN <<EXP_DETAILS, EXP_RESULTS>>
                                  ELSE <<>>)))

\* an execute_literal returned rows and showed nothing
C16_Witness ==
    /\ last.op \in CustomOps
    /\ last.ret # None
    /\ last.ret[1].rows > 0
    /\ last.sent = <<last.arg>>
    /\ last.reports = <<>>

\* ------------------------------------- properties of the schema validator
\* the short names of the three tables, in the order they are validated
ShortNames == <<"historical_loans", "raw_transactions", "ref_accounting">>
\* the column names a DESCRIBE answer shows: the col_name cells of its rows,
\* in the order of the rows; None when the statement failed, gave no row
\* or gave no col_name column
Observed(answer) ==
    IF /\ answer # None
       /\ answer[1].data[1].rows > 0
       /\ "col_name" \in Elements(answer[1].data[1].columns)
    THEN Some(answer[1].data[1].col_name)
    ELSE None
ObservedNames(answer) ==
    IF Observed(answer) = None THEN {} ELSE Elements(Observed(answer)[1])

\* C18: validate_all_tables never raises and returns an entry for each of
\* the three tables; whichever tables' DESCRIBE fails, each of them has no
\* columns and column count 0, and every other table is still described and
\* reported with the columns observed.
C18_ValidateAllToleratesFailures ==
    (last.op = OP_VALIDATE_ALL)
    => (/\ ~last.raised
        /\ last.ret # None
        /\ DOMAIN last.ret[1] = Elements(ShortNames)
        /\ Len(last.answers) = 3
        /\ \A k \in 1..3 :
              LET entry == last.ret[1][ShortNames[k]]
                  columns == Observed(last.answers[k])
              IN /\ entry.full_name = TABLES[k]
                 /\ (columns = None)
                    => (entry.columns = None /\ entry.column_count = 0)
                 /\ (columns # None)
                    => (/\ entry.columns = columns
                        /\ entry.column_count = Len(columns[1])))

\* the first and the third table fail, the second is reported
C18_Witness ==
    /\ last.op = OP_VALIDATE_ALL
    /\ last.answers[1] = None
    /\ last.answers[3] = None
    /\ last.ret[1]["historical_loans"].columns = None
    /\ last.ret[1]["raw_transactions"].columns = Some(<<"id", "balance">>)
    /\ last.ret[1]["raw_transactions"].column_count = 2
    /\ last.ret[1]["ref_accounting"].column_count = 0

\* C19: has_loan_amnt, has_balance and validate_column_exists are true
\* exactly when the field is among the column names observed from the
\* DESCRIBE rows, false when none was observed, and the columns reported
\* are the observed ones in the order of the rows.
C19_PresenceFlagsFollowObserved ==
    /\ (last.op = OP_VALIDATE_ALL /\ ~last.raised)
       => \A k \in 1..3 :
             LET entry == last.ret[1][ShortNames[k]] IN
             /\ entry.has_loan_amnt
                   = ("loan_amnt" \in ObservedNames(last.answers[k]))
             /\ entry.has_balance
                   = ("balance" \in ObservedNames(last.answers[k]))
             /\ entry.columns = Observed(last.answers[k])
    /\ (last.op = OP_VALIDATE_COLUMN)
       => (/\ ~last.raised
           /\ last.ret
                 = Some(last.arg[2] \in ObservedNames(last.answers[1])))
    /\ (last.op = OP_GET_TABLE_COLUMNS /\ ~last.raised)
       => (last.ret = Observed(last.answers[1]))

\* "balance" is the second of the two columns observed, "loan_amnt" is not
\* among them
C19_Witness ==
    /\ last.op = OP_VALIDATE_ALL
    /\ Observed(last.answers[3]) = Some(<<"id", "balance">>)
    /\ last.ret[1]["ref_accounting"].has_balance
    /\ ~last.ret[1]["ref_accounting"].has_loan_amnt
    /\ last.ret[1]["ref_accounting"].columns = Some(<<"id", "balance">>)

\* ---------------------------------------------- properties of the registry
\* the name contains the word
Contains(query_type, word) == word \in Elements(name_parts[query_type])

\* C20: the SQL every name of the registry resolves to is not empty, has
\* SELECT and FROM, and names the table of its domain: historical_loans for
\* a name with "loan"; else raw_transactions for a name with "transaction";
\* else ref_accounting or raw_transactions for a name with "accounting".
C20_RegistrySqlNamesItsTable ==
    (last.op = OP_RESOLVE)
    => LET query_type == last.arg[1]
           query_sql == last.ret[1]
       IN /\ Len(query_sql) > 0
          /\ "SELECT" \in Elements(query_sql)
          /\ "FROM" \in Elements(query_sql)
          /\ IF Contains(query_type, "loan")
             THEN HISTORICAL_LOANS \in Elements(query_sql)
             ELSE IF Contains(query_type, "transaction")
             THEN RAW_TRANSACTIONS \in Elements(query_sql)
             ELSE IF Contains(query_type, "accounting")
             THEN \/ REF_ACCOUNTING \in Elements(query_sql)
                  \/ RAW_TRANSACTIONS \in Elements(query_sql)
             ELSE TRUE

\* the alias loan_status resolves to the SQL of loan_status_distribution
C20_Witness ==
    /\ last.op = OP_RESOLVE
    /\ last.arg = <<"loan_status">>
    /\ last.ret = Some(get_loan_status_distribution)
    /\ HISTORICAL_LOANS \in Elements(last.ret[1])

\* the legacy names of the registry and the names they stand for
legacy_names ==
    [ overview |-> "loan_summary",
      loan_status |-> "loan_status_distribution",
      monthly_trends |-> "monthly_loan_trend",
      transactions |-> "transaction_summary",
      accounting |-> "accounting_treatment_analysis" ]

\* C21: every legacy name of the registry resolves to the SQL text its
\* canonical name resolves to, on every call: the text is that of the
\* canonical template, and it is the text the call before got for the
\* canonical or for the same legacy name.
C21_AliasResolvesAsCanonical ==
    (last.op = OP_RESOLVE /\ last.arg[1] \in DOMAIN legacy_names)
    => LET canonical == legacy_names[last.arg[1]] IN
       /\ canonical \in DOMAIN query_registry
       /\ last.ret = Some(query_registry[canonical])
       /\ (last.prev.op = OP_RESOLVE
           /\ last.prev.arg \in {last.arg, <<canonical>>})
          => (last.ret = last.prev.ret)

\* overview resolved right after loan_summary, to the same text
C21_Witness ==
    /\ last.op = OP_RESOLVE
    /\ last.arg = <<"overview">>
    /\ last.prev.op = OP_RESOLVE
    /\ last.prev.arg = <<"loan_summary">>
    /\ last.ret = last.prev.ret
    /\ last.ret = Some(get_loan_summary)

\* C22: every name get_available_queries lists is registered and has a
\* description that is not empty, and a named execution of it, through
\* either entry point and whatever the service does, reports no unknown-name
\* error.
C22_ListedNamesAreRegistered ==
    (last.op = OP_LIST)
    => (/\ ~last.raised
        /\ last.ret # None
        /\ \A name \in DOMAIN last.ret[1] :
              /\ name \in DOMAIN query_registry
              /\ Len(last.ret[1][name]) > 0
              /\ \A svc \in ServiceBehaviours :
                    LET a == QueryManager_execute_predefined_query(
                                 QueryManager(warehouse_id), name, svc, Start)
                        b == execute_predefined_query(name, svc, Start)
                    IN /\ ERR_UNKNOWN \notin Elements(a.w.reports)
                       /\ ERR_UNKNOWN \notin Elements(b.w.reports))

\* the sixteen names are listed, and a listed name resolves
C22_Witness ==
    /\ last.op = OP_LIST
    /\ Cardinality(DOMAIN last.ret[1]) = 16
    /\ "interest_analysis" \in DOMAIN last.ret[1]
    /\ last.prev.op = OP_RESOLVE
    /\ last.prev.arg[1] \in DOMAIN last.ret[1]

\* ------------------------------------------- properties of the entry points
\* C23: a named execution of an unregistered name reports the unknown-name
\* error together with the list of the registered names (the st.info that
\* joins the registry's keys), through QueryManager.execute_predefined_query
\* and through the module-level execute_predefined_query.
C23_UnknownNameListsValidNames ==
    NamedUnknown(last)
    => (/\ Reported(last, {ERR_UNKNOWN})
        /\ Reported(last, {INFO_AVAILABLE}))

\* the operations of the app that go through get_query_manager
ManagerOps == {OP_GET_QUERY_MANAGER, OP_INITIALIZE, OP_NAMED, OP_CUSTOM}

\* C24: in every state a sequence of get_query_manager, execute_named,
\* execute_literal, initialize_connection and clear-all calls reaches, at
\* most one QueryManager has been constructed, once constructed it stays the
\* global instance, and it is the instance every call obtains and
\* get_query_manager returns.
C24_OneQueryManagerPerProcess ==
    /\ managers <= 1
    /\ (managers = 1) <=> (query_manager # None)
    /\ (query_manager # None) => (query_manager[1].id = 1)
    /\ last.manager \in {None, Some(1)}
    /\ (last.op \in ManagerOps /\ last.served = {})
       => (last.manager = Some(1) /\ managers = 1)
    /\ (last.op = OP_GET_QUERY_MANAGER)
       => (~last.raised /\ last.ret = query_manager)

\* get_query_manager after a clear-all that emptied caches a named execution
\* had filled: the instance is still the first
C24_Witness ==
    /\ last.op = OP_GET_QUERY_MANAGER
    /\ last.prev.op = OP_CLEAR
    /\ last.prev.entries_before > 0
    /\ last.ret = query_manager
    /\ last.ret[1].id = 1
    /\ managers = 1

\* C25: test_connection (reached through initialize_connection and
\* QueryManager.test_connection) never raises; it returns True exactly when
\* the probe "SELECT 1 as test" was executed and gave a result of at least
\* one row, and False when execute_query gave None or an empty result.
C25_ProbeDecidesTestConnection ==
    (last.op = OP_INITIALIZE)
    => (/\ ~last.raised
        /\ last.ret = Some(/\ last.fetched # None
                           /\ last.fetched[1].rows >= 1)
        /\ last.sent \in {<<>>, <<PROBE>>}
        /\ (last.ret = Some(TRUE)) => (last.sent = <<PROBE>>)
        /\ (last.fault # "none") => (last.ret = Some(FALSE)))

\* the probe was executed and gave no row
C25_Witness ==
    /\ last.op = OP_INITIALIZE
    /\ last.sent = <<PROBE>>
    /\ last.fetched # None
    /\ last.fetched[1].rows = 0
    /\ last.ret = Some(FALSE)

\* ------------------------------------------ properties of cached failures
\* the named execution of `name` through the entry point `op`, made in the
\* current state against the service behaviour svc
NamedCall(op, name, svc) ==
    IF op = OP_QM_NAMED
    THEN QueryManager_execute_predefined_query(QueryManager(warehouse_id),
                                               name, svc, Start)
    ELSE execute_predefined_query(name, svc, Start)
\* the cache function behind the entry point, and the key of a name in it
CacheOf(op) ==
    IF op = OP_QM_NAMED THEN "_execute_query_cached"
    ELSE "execute_predefined_query"
KeyOf(op, name) ==
    IF op = OP_QM_NAMED THEN <<query_registry[name], name>> ELSE <<name>>
\* the service works: it connects, executes and gives rows
Recovered(svc) == svc.connect = "ok" /\ svc.execute = "ok" /\ svc.rows > 0
\* the last call was a named execution that reached the provider and failed
FailedExecution(l) ==
    NamedRegistered(l) /\ l.conn_calls > 0 /\ l.ret = None

\* C27: the result cache keeps the provider's failure sentinel like a
\* result.  After a named execution that failed (connection failure or
\* execution fault) the cache holds null for the name; while such an entry
\* is within its 5-minute TTL (no clear-all having dropped it), a named
\* execution of the name returns null without reaching the provider,
\* whatever the service would do now; and so did the last call, when it
\* repeated a failed one within the TTL.
C27_FailureIsCached ==
    /\ FailedExecution(last)
       => \E e \in cache_data :
             /\ e.fn = CacheOf(last.op)
             /\ e.key = KeyOf(last.op, last.arg[1])
             /\ e.value = None
             /\ e.at = last.at
    /\ \A op \in NamedOps, name \in DOMAIN query_registry :
          (\E e \in CacheLookup(cache_data, CacheOf(op), KeyOf(op, name),
                                TTLOf(op), now) : e.value = None)
          => \A svc \in ServiceBehaviours :
                LET r == NamedCall(op, name, svc) IN
                /\ r.ret = None
                /\ ~r.raised
                /\ r.w.sent = <<>>
                /\ r.w.conn_calls = 0
                /\ r.w.connects = 0
    /\ (/\ NamedRegistered(last)
        /\ RepeatsExecuted(last)
        /\ last.prev.ret = None
        /\ last.at - last.prev.at < TTLOf(last.op))
       => (/\ last.ret = None
           /\ last.sent = <<>>
           /\ last.conn_calls = 0
           /\ last.connects = 0)

\* a named execution failed, the same was called again later within the TTL
\* and got null from the cache, and still would with the service recovered
C27_Witness ==
    /\ NamedRegistered(last)
    /\ RepeatsExecuted(last)
    /\ last.prev.ret = None
    /\ last.at - last.prev.at = Tick
    /\ warehouse_id # None
    /\ last.served = {Tick}
    /\ last.ret = None
    /\ last.conn_calls = 0
    /\ \E svc \in ServiceBehaviours :
          /\ Recovered(svc)
          /\ NamedCall(last.op, last.arg[1], svc).ret = None

\* ------------------------------------------- properties of fault reports
\* the faults of the service: sql.connect, cursor(), execute(), the fetch
ServiceFaults == ExecutionFaults \cup {"connect_fault"}
\* the errors of the provider, the warnings of the facade's no-result
\* branch, the errors of the facade's exception branch
ProviderErrors == {ERR_CONNECTION, ERR_EXECUTION}
NoResultWarnings == {WARN_NO_RESULTS, WARN_CUSTOM_NO_RESULTS}
FacadeErrors == {ERR_FAILED, ERR_CUSTOM_FAILED}
\* what the facade shows before it executes, and its no-result warning
Opening(op) == IF op = OP_QM_NAMED THEN <<EXP_DETAILS>> ELSE <<>>
NoResultWarning(op) ==
    IF op \in NamedOps THEN WARN_NO_RESULTS ELSE WARN_CUSTOM_NO_RESULTS

\* C28 as stated: every service fault during execute_named or
\* execute_literal gives exactly one error of the provider, then one
\* "returned no results" warning of the facade, and a null result, and the
\* facade's exception branch is not reached.
C28_OneErrorThenWarning ==
    (last.op \in NamedOps \cup CustomOps /\ last.fault \in ServiceFaults)
    => (/\ last.ret = None
        /\ CountOf(last, ProviderErrors) = 1
        /\ CountOf(last, NoResultWarnings) = 1
        /\ last.reports[Len(last.reports)] = NoResultWarning(last.op)
        /\ ~Reported(last, FacadeErrors))

\* C28 amended: a fault of cursor(), execute() or the fetch gives the
\* provider's "Query execution failed" error, then the facade's "returned
\* no results" warning; a failing sql.connect gives the provider's "Database
\* connection failed" and "Query execution failed" errors, then that
\* warning; the result is null, and no call reports an error of the
\* facade's exception branch.
C28_ErrorsThenWarning ==
    /\ (last.op \in NamedOps \cup CustomOps /\ last.fault \in ExecutionFaults)
       => (/\ last.ret = None
           /\ last.reports = Opening(last.op)
                  \o <<ERR_EXECUTION, NoResultWarning(last.op)>>)
    /\ (last.op \in NamedOps \cup CustomOps /\ last.fault = "connect_fault")
       => (/\ last.ret = None
           /\ last.reports = Opening(last.op)
                  \o <<ERR_CONNECTION, ERR_EXECUTION,
                       NoResultWarning(last.op)>>)
    /\ (last.op \in NamedOps \cup CustomOps)
       => (~last.raised /\ ~Reported(last, FacadeErrors))

\* sql.connect failed under QueryManager.execute_predefined_query
C28_Witness ==
    /\ last.op = OP_QM_NAMED
    /\ last.fault = "connect_fault"
    /\ last.connects = 1
    /\ last.ret = None
    /\ last.reports
          = <<EXP_DETAILS, ERR_CONNECTION, ERR_EXECUTION, WARN_NO_RESULTS>>

\* --------------------------------------- properties of the two entry points
\* the names asked of both entry points: those of the sessions (a canonical
\* name, a legacy name, an unregistered one) and a legacy and a canonical
\* name of the other two domains
ComparedNames == QueryNames \cup {"transactions", "interest_analysis"}

\* C29: from empty caches, for every name (registered or not) and every
\* behaviour of the service (success, empty result, connection failure,
\* execution fault), the module-level execute_predefined_query returns the
\* value and sends the SQL text that QueryManager.execute_predefined_query
\* returns and sends.
C29_EntryPointsAgree ==
    (cache_data = {} /\ cache_resource = {})
    => \A name \in ComparedNames, svc \in ServiceBehaviours :
          LET a == NamedCall(OP_NAMED, name, svc)
              b == NamedCall(OP_QM_NAMED, name, svc)
          IN /\ a.ret = b.ret
             /\ a.raised = b.raised
             /\ a.w.sent = b.w.sent
             /\ (a.w.sent # <<>>)
                => (/\ name \in DOMAIN query_registry
                    /\ a.w.sent = <<query_registry[name]>>)

\* the caches are empty again after a clear-all, and both entry points send
\* the SQL of overview and return the rows the service gives
C29_Witness ==
    /\ last.op = OP_CLEAR
    /\ last.entries_before > 1
    /\ cache_data = {}
    /\ cache_resource = {}
    /\ \E svc \in ServiceBehaviours :
          /\ Recovered(svc)
          /\ NamedCall(OP_NAMED, "overview", svc).ret # None
          /\ NamedCall(OP_NAMED, "overview", svc).ret
                = NamedCall(OP_QM_NAMED, "overview", svc).ret
          /\ NamedCall(OP_QM_NAMED, "overview", svc).w.sent
                = <<get_loan_summary>>

\* ------------------------------------------ two sessions at the same time
\* Streamlit runs the script of every session in a thread of its own, in one
\* process: the module global and the caches are shared.  A thread's call is
\* taken apart where another thread can come in between: around the lookup
\* and the store of st.cache_data, and between the test, the assignment and
\* the return of get_query_manager.  Whether st.cache_data computes a missing
\* value under a lock of the key (and looks the key up again once it has the
\* lock) depends on the Streamlit release: both are modelled.
Threads == {"T1", "T2"}
RaceNames == QueryNames \cap DOMAIN query_registry
RaceOps == NamedOps \cup {OP_GET_QUERY_MANAGER}

\* a thread before its call
Idle ==
    [pc |-> "idle", op |-> "none", arg |-> <<>>, saw_none |-> FALSE,
     qm |-> None, svc |-> None, value |-> None, sent |-> <<>>,
     msgs |-> <<>>, ret |-> None, served |-> FALSE, wrote |-> 0]

Step(t, local) == threads' = [threads EXCEPT ![t] = local]
LogUnchanged == UNCHANGED <<now, caller, warehouse_id, calls, called, last>>

\* what the caller gets of the value of the cached function
Finish(op, value) ==
    IF op = OP_QM_NAMED
    THEN IF HasData(value) THEN value[1].data ELSE None
    ELSE value
\* the fresh entries of the key of the thread's call
Hit(l) ==
    CacheLookup(cache_data, CacheOf(l.op), KeyOf(l.op, l.arg[1]),
                TTLOf(l.op), now)
\* the thread is answered from the entry e
ServedFrom(l, e) ==
    [l EXCEPT !.pc = "done", !.ret = Finish(l.op, e.value), !.served = TRUE]
\* where the cached function's body starts
BodyStart(op) == IF op = OP_NAMED THEN "check" ELSE "execute"
\* the lock of the key of the thread's call
LockOf(l) == <<CacheOf(l.op), KeyOf(l.op, l.arg[1])>>

\* a session calls execute_predefined_query (either entry point) or
\* get_query_manager
Call(t) ==
    \E op \in RaceOps, name \in RaceNames :
        /\ caller = "Sessions"
        /\ threads[t].pc = "idle"
        /\ Step(t, [Idle EXCEPT
                       !.op = op,
                       !.arg = IF op \in NamedOps THEN <<name>> ELSE <<>>,
                       !.pc = IF op \in NamedOps THEN "lookup" ELSE "check"])
        /\ UNCHANGED <<query_manager, managers, cache_data, cache_resource,
                       handles, lock>>
        /\ LogUnchanged

\* st.cache_data looks the key up
Lookup(t) ==
    LET l == threads[t] IN
    /\ l.pc = "lookup"
    /\ IF Hit(l) # {}
       THEN Step(t, ServedFrom(l, CHOOSE e \in Hit(l) : TRUE))
       ELSE Step(t, [l EXCEPT !.pc = IF lock.used THEN "acquire"
                                     ELSE BodyStart(l.op)])
    /\ UNCHANGED <<query_manager, managers, cache_data, cache_resource,
                   handles, lock>>
    /\ LogUnchanged

\* st.cache_data takes the lock of the key and looks the key up again
Acquire(t) ==
    LET l == threads[t] IN
    /\ l.pc = "acquire"
    /\ LockOf(l) \notin lock.held
    /\ IF Hit(l) # {}
       THEN /\ Step(t, ServedFrom(l, CHOOSE e \in Hit(l) : TRUE))
            /\ lock' = lock
       ELSE /\ Step(t, [l EXCEPT !.pc = BodyStart(l.op)])
            /\ lock' = [lock EXCEPT !.held = @ \cup {LockOf(l)}]
    /\ UNCHANGED <<query_manager, managers, cache_data, cache_resource,
                   handles>>
    /\ LogUnchanged

\* get_query_manager: `if _query_manager is None`
CheckManager(t) ==
    LET l == threads[t] IN
    /\ l.pc = "check"
    /\ Step(t, [l EXCEPT !.saw_none = (query_manager = None),
                         !.pc = IF query_manager = None THEN "build"
                                ELSE "return"])
    /\ UNCHANGED <<query_manager, managers, cache_data, cache_resource,
                   handles, lock>>
    /\ LogUnchanged

\* get_query_manager: `_query_manager = QueryManager()`, by a thread that
\* found the global None
BuildManager(t) ==
    LET l == threads[t]
        r == get_query_manager([Start EXCEPT !.query_manager = None])
    IN /\ l.pc = "build"
       /\ l.saw_none
       /\ query_manager' = r.w.query_manager
       /\ managers' = r.w.managers
       /\ Step(t, [l EXCEPT !.pc = "return"])
       /\ UNCHANGED <<cache_data, cache_resource, handles, lock>>
       /\ LogUnchanged

\* get_query_manager: `return _query_manager`
ReturnManager(t) ==
    LET l == threads[t]
        r == get_query_manager(Start)
    IN /\ l.pc = "return"
       /\ query_manager # None
       /\ Step(t, [l EXCEPT !.qm = Some(r.ret.id),
                            !.pc = IF l.op \in NamedOps THEN "execute"
                                   ELSE "done"])
       /\ UNCHANGED <<query_manager, managers, cache_data, cache_resource,
                      handles, lock>>
       /\ LogUnchanged

\* the rest of the cached function's body: the statement goes to the service
Execute(t) ==
    \E svc \in ServiceBehaviours :
        LET l == threads[t]
            name == l.arg[1]
            r == IF l.op = OP_NAMED
                 THEN execute_with(New(QueryManager(warehouse_id), l.qm[1]),
                                   name, svc, Start)
                 ELSE execute_query(QueryManager(warehouse_id).db,
                                    query_registry[name], svc, Start)
        IN /\ l.pc = "execute"
           /\ cache_resource' = r.w.cache_resource
           /\ handles' = r.w.handles
           /\ Step(t, [l EXCEPT !.pc = "store", !.svc = Some(svc),
                                !.value = Some(r.ret), !.sent = r.w.sent,
                                !.msgs = r.w.reports])
           /\ UNCHANGED <<query_manager, managers, cache_data, lock>>
           /\ LogUnchanged

\* st.cache_data writes the value, gives the lock back and returns
Store(t) ==
    LET l == threads[t] IN
    /\ l.pc = "store"
    /\ cache_data' = CacheStore(cache_data, CacheOf(l.op),
                                KeyOf(l.op, l.arg[1]), TTLOf(l.op),
                                l.value[1], l.msgs, now)
    /\ lock' = [lock EXCEPT !.held = @ \ {LockOf(l)}]
    /\ Step(t, [l EXCEPT
                   !.pc = "done",
                   !.ret = Finish(l.op, l.value[1]),
                   !.wrote = 1 + Cardinality({ u \in Threads :
                                                 threads[u].wrote > 0 })])
    /\ UNCHANGED <<query_manager, managers, cache_resource, handles>>
    /\ LogUnchanged

InitRace ==
    /\ Process({"Sessions"})
    /\ threads = [t \in Threads |-> Idle]
    /\ lock \in {NoLock, [used |-> TRUE, held |-> {}]}

NextRace ==
    \E t \in Threads :
        \/ Call(t)
        \/ Lookup(t)
        \/ Acquire(t)
        \/ CheckManager(t)
        \/ BuildManager(t)
        \/ ReturnManager(t)
        \/ Execute(t)
        \/ Store(t)

SpecRace == InitRace /\ [][NextRace]_vars

\* ------------------------------------------ properties of the two sessions
\* both threads made the same named call and both calls have returned
BothReturned(t, u) ==
    /\ t # u
    /\ threads[t].pc = "done"
    /\ threads[u].pc = "done"
    /\ threads[t].op \in NamedOps
    /\ threads[t].op = threads[u].op
    /\ threads[t].arg = threads[u].arg
\* the thread's call reached the service
Executed(t) == threads[t].svc # None
\* the entries the cache holds for the key of the thread's call
EntriesOf(t) ==
    { e \in cache_data : /\ e.fn = CacheOf(threads[t].op)
                         /\ e.key = KeyOf(threads[t].op, threads[t].arg[1]) }
\* the thread that wrote the key last
LastWriter(t, u) == IF threads[t].wrote > threads[u].wrote THEN t ELSE u

C30_OneInstanceWhenInterleaved ==
    /\ managers <= 1
    /\ \A t, u \in Threads :
          (threads[t].qm # None /\ threads[u].qm # None)
          => (threads[t].qm = threads[u].qm)

====
